---- MODULE Spec2Model ----
(***************************************************************************)
(* django-post-content-types: nine POST handlers (views.py), the two       *)
(* Django forms (forms.py) and the pydantic schema (schemas.py) they       *)
(* validate with.  One request is dispatched to exactly one handler, which *)
(* answers it; no state is shared between requests.                        *)
(*                                                                         *)
(* Representation of the inputs.                                           *)
(*  - A form string is its census: how many uppercase letters, lowercase   *)
(*    letters, digits, underscores and other characters it holds, plus the *)
(*    number of leading/trailing whitespace characters (pad).  Every       *)
(*    string operation the forms apply (len, strip, replace("_", ""),      *)
(*    isalnum, isdigit, lower, upper, ==) is a function of the census.     *)
(*  - A raw body is a sequence of byte values.                             *)
(*  - json.loads of a whole body, ET.fromstring and the e-mail syntax      *)
(*    check are library calls: their input is given by the outcome the     *)
(*    library produces for it (a parsed value, a parse error).             *)
(***************************************************************************)
EXTENDS Integers, Sequences, FiniteSets, TLC

VARIABLES request, response, pc

vars == <<request, response, pc>>

(***************************************************************************)
(* Bounds of the model.                                                    *)
(***************************************************************************)
\* largest per-class letter/digit count of a generated password
MaxCount == 8
\* largest underscore / other-character / padding count of a generated string
MaxExtra == 1
\* longest NDJSON body, in bytes
MaxBodyLen == 5
\* longest text/plain, text/html and image/svg+xml body, in bytes
MaxTextLen == 2
\* longest application/octet-stream body, in bytes
MaxBinaryLen == 11
\* most direct children of an XML root
MaxChildren == 2

(***************************************************************************)
(* Program constants.                                                      *)
(***************************************************************************)
UsernameMinLength == 3
UsernameMaxLength == 150
PasswordMinLength == 8
BioMaxLength == 500
AvatarMaxSize == 5 * 1024 * 1024
NameMinLength == 2
NameMaxLength == 100
AgeMin == 0
AgeMax == 150
FirstBytesCount == 10
NoLimit == 0 - 1

allowed_types == {"image/jpeg", "image/png", "image/gif", "image/webp"}

(***************************************************************************)
(* Strings (census representation).                                        *)
(***************************************************************************)
Str(u, l, d, s, o, p) ==
    [upper |-> u, lower |-> l, digit |-> d, under |-> s, other |-> o, pad |-> p]

EmptyStr == Str(0, 0, 0, 0, 0, 0)

\* len(s)
StrLen(s) == s.upper + s.lower + s.digit + s.under + s.other + s.pad

\* s.strip(): CharField(strip=True), the default of every CharField declared
strip(s) == [s EXCEPT !.pad = 0]

\* s.replace("_", "")
replace_underscore(s) == [s EXCEPT !.under = 0]

\* s.isalnum(): non-empty and every character a letter or a digit
isalnum(s) == StrLen(s) > 0 /\ s.upper + s.lower + s.digit = StrLen(s)

\* s.isdigit(): non-empty and every character a digit
isdigit(s) == StrLen(s) > 0 /\ s.digit = StrLen(s)

\* s.lower(): every uppercase letter becomes a lowercase one
lower(s) == [s EXCEPT !.upper = 0, !.lower = s.lower + s.upper]

\* s.upper(): every lowercase letter becomes an uppercase one
upper(s) == [s EXCEPT !.lower = 0, !.upper = s.upper + s.lower]

(***************************************************************************)
(* Error messages of forms.py.                                             *)
(***************************************************************************)
MsgUsernameRequired == "Username is required"
MsgUsernameMin == "Username must be at least 3 characters long"
MsgUsernameMax == "Username cannot exceed 150 characters"
MsgUsernameChars == "Username can only contain letters, numbers, and underscores"
MsgEmailRequired == "Email is required"
MsgEmailInvalid == "Please enter a valid email address"
MsgPasswordRequired == "Password is required"
MsgPasswordMin == "Password must be at least 8 characters long"
MsgPasswordNumeric == "Password cannot be entirely numeric"
MsgPasswordCase == "Password must contain both uppercase and lowercase letters"
MsgBioMax == "Bio cannot exceed 500 characters"
MsgAvatarSize == "File size cannot exceed 5MB"
MsgAvatarType == "Invalid file type. Allowed types: image/jpeg, image/png, image/gif, image/webp"

(***************************************************************************)
(* Field cleaning.  A cleaned field is [errs, value]: errs is the list of  *)
(* messages (empty when the field is valid), value the normalised value.   *)
(***************************************************************************)
Cleaned(errs, value) == [errs |-> errs, value |-> value]

\* forms.CharField(required, min_length, max_length).clean(raw): strip, then
\* the required check, then both length validators (their errors are
\* collected together); an empty optional value skips the validators.
CharField_clean(raw, required, min_length, max_length, msgs) ==
    LET value == strip(raw)
        n == StrLen(value)
    IN  IF n = 0
        THEN Cleaned(IF required THEN <<msgs.required>> ELSE <<>>, value)
        ELSE Cleaned(
               (IF min_length # NoLimit /\ n < min_length
                   THEN <<msgs.min_length>> ELSE <<>>)
               \o (IF max_length # NoLimit /\ n > max_length
                   THEN <<msgs.max_length>> ELSE <<>>),
               value)

\* the e-mail addresses of the model and the verdict of Django's validator
ValidEmail == "john@example.com"
InvalidEmail == "not-an-email"
EmailInputs == {"", ValidEmail, InvalidEmail}
EmailSyntaxValid(e) == e = ValidEmail

\* forms.EmailField(required=True).clean(raw)
EmailField_clean(raw) ==
    IF raw = "" THEN Cleaned(<<MsgEmailRequired>>, raw)
    ELSE IF ~EmailSyntaxValid(raw) THEN Cleaned(<<MsgEmailInvalid>>, raw)
    ELSE Cleaned(<<>>, raw)

\* clean_username of both forms: runs only when the declared field was valid
clean_username(username) ==
    IF StrLen(username) > 0 /\ ~isalnum(replace_underscore(username))
    THEN Cleaned(<<MsgUsernameChars>>, username)
    ELSE Cleaned(<<>>, username)

\* the username field of either form: the declared field, then clean_username
username_field(raw) ==
    LET f == CharField_clean(raw, TRUE, UsernameMinLength, UsernameMaxLength,
                 [required |-> MsgUsernameRequired, min_length |-> MsgUsernameMin,
                  max_length |-> MsgUsernameMax])
    IN  IF f.errs # <<>> THEN f ELSE clean_username(f.value)

\* clean_password without its upper() comparison
clean_password_no_case_mut(password) ==
    IF StrLen(password) > 0 /\ isdigit(password)
    THEN Cleaned(<<MsgPasswordNumeric>>, password)
    ELSE IF StrLen(password) > 0 /\ lower(password) = password
    THEN Cleaned(<<MsgPasswordCase>>, password)
    ELSE Cleaned(<<>>, password)

\* URLEncodedForm.clean_password: the first failing check raises
clean_password(password) ==
    IF StrLen(password) > 0 /\ isdigit(password)
    THEN Cleaned(<<MsgPasswordNumeric>>, password)
    ELSE IF StrLen(password) > 0
            /\ (lower(password) = password \/ upper(password) = password)
    THEN Cleaned(<<MsgPasswordCase>>, password)
    ELSE Cleaned(<<>>, password)

\* the password field: the declared field, then clean_password
password_field(raw) ==
    LET f == CharField_clean(raw, TRUE, PasswordMinLength, NoLimit,
                 [required |-> MsgPasswordRequired, min_length |-> MsgPasswordMin,
                  max_length |-> ""])
    IN  IF f.errs # <<>> THEN f ELSE clean_password(f.value)

\* the bio field: optional, at most 500 characters
bio_field(raw) ==
    CharField_clean(raw, FALSE, NoLimit, BioMaxLength,
        [required |-> "", min_length |-> "", max_length |-> MsgBioMax])

\* an uploaded file (request.FILES["avatar"]), or none; an uploaded file holds
\* at least one byte
NoFile == [present |-> FALSE, name |-> "", size |-> 0, content_type |-> ""]
File(name, size, ct) == [present |-> TRUE, name |-> name, size |-> size, content_type |-> ct]

\* clean_avatar with its two checks in the other order
clean_avatar_type_first_mut(avatar) ==
    IF avatar.present /\ avatar.content_type \notin allowed_types
    THEN Cleaned(<<MsgAvatarType>>, avatar)
    ELSE IF avatar.present /\ avatar.size > AvatarMaxSize
    THEN Cleaned(<<MsgAvatarSize>>, avatar)
    ELSE Cleaned(<<>>, avatar)

\* MultipartForm.clean_avatar: the size check raises before the type check
clean_avatar(avatar) ==
    IF avatar.present /\ avatar.size > AvatarMaxSize
    THEN Cleaned(<<MsgAvatarSize>>, avatar)
    ELSE IF avatar.present /\ avatar.content_type \notin allowed_types
    THEN Cleaned(<<MsgAvatarType>>, avatar)
    ELSE Cleaned(<<>>, avatar)

\* the avatar field: forms.FileField(required=False), then clean_avatar
avatar_field(raw) == clean_avatar(raw)

(***************************************************************************)
(* Forms: every field is cleaned, whatever the others did; form.errors     *)
(* holds the fields that failed.                                           *)
(***************************************************************************)
FormFields == {"username", "email", "password", "bio", "avatar", "name", "age"}

NoErrors == [f \in FormFields |-> <<>>]

\* URLEncodedForm stopping at the first field that fails
URLEncodedForm_first_only_mut(post) ==
    LET u == username_field(post.username)
        e == EmailField_clean(post.email)
        p == password_field(post.password)
        b == bio_field(post.bio)
    IN  [errors |-> [f \in FormFields |->
                       IF f = "username" THEN u.errs
                       ELSE IF f = "email" /\ u.errs = <<>> THEN e.errs
                       ELSE IF f = "password" /\ u.errs = <<>> /\ e.errs = <<>>
                            THEN p.errs
                       ELSE IF f = "bio" /\ u.errs = <<>> /\ e.errs = <<>>
                               /\ p.errs = <<>> THEN b.errs
                       ELSE <<>>],
         cleaned_data |-> [username |-> u.value, email |-> e.value,
                           password |-> p.value, bio |-> b.value]]

\* URLEncodedForm(request.POST): errors and cleaned_data
URLEncodedForm(post) ==
    LET u == username_field(post.username)
        e == EmailField_clean(post.email)
        p == password_field(post.password)
        b == bio_field(post.bio)
    IN  [errors |-> [f \in FormFields |->
                       IF f = "username" THEN u.errs
                       ELSE IF f = "email" THEN e.errs
                       ELSE IF f = "password" THEN p.errs
                       ELSE IF f = "bio" THEN b.errs
                       ELSE <<>>],
         cleaned_data |-> [username |-> u.value, email |-> e.value,
                           password |-> p.value, bio |-> b.value]]

\* MultipartForm(request.POST, request.FILES): errors and cleaned_data
MultipartForm(post) ==
    LET u == username_field(post.username)
        e == EmailField_clean(post.email)
        a == avatar_field(post.avatar)
    IN  [errors |-> [f \in FormFields |->
                       IF f = "username" THEN u.errs
                       ELSE IF f = "email" THEN e.errs
                       ELSE IF f = "avatar" THEN a.errs
                       ELSE <<>>],
         cleaned_data |-> [username |-> u.value, email |-> e.value,
                           avatar |-> a.value]]

\* form.is_valid()
is_valid(form) == \A f \in FormFields : form.errors[f] = <<>>

(***************************************************************************)
(* Responses.  keys is the set of members of the JSON object sent; a       *)
(* member that is not in keys holds its empty value.  An exception that    *)
(* leaves the handler is a fault: Django answers 500 and the handler sends *)
(* no JSON of its own.                                                     *)
(***************************************************************************)
NoPayload == <<>>

Response(http, keys, status, content_type, error, errors, payload) ==
    [http |-> http, keys |-> keys, status |-> status,
     content_type |-> content_type, error |-> error, errors |-> errors,
     payload |-> payload, fault |-> ""]

Fault(exception) ==
    [http |-> 500, keys |-> {}, status |-> "", content_type |-> "",
     error |-> "", errors |-> NoErrors, payload |-> NoPayload,
     fault |-> exception]

NoResponse ==
    [http |-> 0, keys |-> {}, status |-> "", content_type |-> "",
     error |-> "", errors |-> NoErrors, payload |-> NoPayload, fault |-> ""]

(***************************************************************************)
(* handle_urlencoded                                                       *)
(***************************************************************************)
urlencoded_response(req) ==
    LET form == URLEncodedForm(req.body)
    IN  IF ~is_valid(form)
        THEN Response(400, {"status", "errors", "content_type"}, "error",
                      req.content_type, "", form.errors, NoPayload)
        ELSE Response(200, {"status", "form_data", "content_type"}, "success",
                      req.content_type, "", NoErrors, form.cleaned_data)

(***************************************************************************)
(* handle_multipart                                                        *)
(***************************************************************************)
multipart_response(req) ==
    LET form == MultipartForm(req.body)
    IN  IF ~is_valid(form)
        THEN Response(400, {"status", "errors", "content_type"}, "error",
                      req.content_type, "", form.errors, NoPayload)
        ELSE Response(200, {"status", "form_data", "content_type"}, "success",
                      req.content_type, "", NoErrors, form.cleaned_data)

(***************************************************************************)
(* JSONDataSchema and handle_json.  A member of the posted object is       *)
(* [type, len, text, num]: absent ("missing"), a string of len characters  *)
(* with content text, an integer num, or null.                             *)
(***************************************************************************)
JMissing == [type |-> "missing", len |-> 0, text |-> "", num |-> 0]
JNull == [type |-> "null", len |-> 0, text |-> "", num |-> 0]
JStr(text, len) == [type |-> "str", len |-> len, text |-> text, num |-> 0]
JInt(n) == [type |-> "int", len |-> 0, text |-> "", num |-> n]

\* the numeric strings of the model and the integer each one denotes
NumericStrings == {"30", "151"}
ParseInt(text) == IF text = "30" THEN 30 ELSE 151

\* name: str = Field(min_length=2, max_length=100)
name_field(v) ==
    IF v.type = "missing" THEN Cleaned(<<"missing">>, v)
    ELSE IF v.type # "str" THEN Cleaned(<<"string_type">>, v)
    ELSE IF v.len < NameMinLength THEN Cleaned(<<"string_too_short">>, v)
    ELSE IF v.len > NameMaxLength THEN Cleaned(<<"string_too_long">>, v)
    ELSE Cleaned(<<>>, v)

\* email: EmailStr
email_field(v) ==
    IF v.type = "missing" THEN Cleaned(<<"missing">>, v)
    ELSE IF v.type # "str" THEN Cleaned(<<"string_type">>, v)
    ELSE IF ~EmailSyntaxValid(v.text) THEN Cleaned(<<"value_error">>, v)
    ELSE Cleaned(<<>>, v)

\* the range check of age, after coercion to an integer
age_range(n) ==
    IF n < AgeMin THEN Cleaned(<<"greater_than_equal">>, JInt(n))
    ELSE IF n > AgeMax THEN Cleaned(<<"less_than_equal">>, JInt(n))
    ELSE Cleaned(<<>>, JInt(n))

\* age: int = Field(ge=0, le=150); a numeric string is coerced
age_field(v) ==
    IF v.type = "missing" THEN Cleaned(<<"missing">>, v)
    ELSE IF v.type = "int" THEN age_range(v.num)
    ELSE IF v.type = "str"
         THEN IF v.text \in NumericStrings THEN age_range(ParseInt(v.text))
              ELSE Cleaned(<<"int_parsing">>, v)
    ELSE Cleaned(<<"int_type">>, v)

\* JSONDataSchema(**data) for a mapping data: errors of ValidationError, and
\* model_dump() of the validated object
JSONDataSchema(data) ==
    LET n == name_field(data.name)
        e == email_field(data.email)
        a == age_field(data.age)
    IN  [errors |-> [f \in FormFields |->
                       IF f = "name" THEN n.errs
                       ELSE IF f = "email" THEN e.errs
                       ELSE IF f = "age" THEN a.errs
                       ELSE <<>>],
         cleaned_data |-> [name |-> n.value, email |-> e.value, age |-> a.value]]

\* handle_json: json.loads(request.body), then JSONDataSchema(**data); only
\* json.JSONDecodeError and pydantic's ValidationError are caught
json_response(req) ==
    IF ~req.body.utf8 THEN Fault("UnicodeDecodeError")
    ELSE IF ~req.body.syntax_ok
    THEN Response(400, {"status", "error", "content_type"}, "error",
                  req.content_type, "Invalid JSON", NoErrors, NoPayload)
    ELSE IF req.body.type # "object" THEN Fault("TypeError")
    ELSE LET validated == JSONDataSchema(req.body.fields)
         IN  IF ~is_valid(validated)
             THEN Response(400, {"status", "errors", "content_type"}, "error",
                           req.content_type, "", validated.errors, NoPayload)
             ELSE Response(200, {"status", "received", "content_type"}, "success",
                           req.content_type, "", NoErrors, validated.cleaned_data)

(***************************************************************************)
(* Text bodies: bytes, decoding, and the str operations of handle_ndjson.  *)
(* Bytes of the model: "1" (49), "2" (50), "x" (120), " " (32), "\n" (10)  *)
(* and 255, which no UTF-8 text contains.                                  *)
(***************************************************************************)
Newline == 10
Whitespace == {32, 10}
Digits == {49, 50}
TextBytes == {49, 50, 120, 32, 10, 255}
BinaryBytes == {0, 255}

\* the byte sequences over alphabet of length at most n
RECURSIVE BytesUpTo(_, _)
BytesUpTo(alphabet, n) ==
    IF n = 0 THEN {<<>>}
    ELSE LET shorter == BytesUpTo(alphabet, n - 1)
         IN  shorter \cup {Append(b, c) : b \in {x \in shorter : Len(x) = n - 1},
                                          c \in alphabet}

\* whether request.body.decode("utf-8") succeeds
utf8_decodable(body) == \A i \in 1..Len(body) : body[i] < 128

\* str.strip(): leading, then trailing whitespace removed
RECURSIVE lstrip(_)
lstrip(t) == IF t # <<>> /\ Head(t) \in Whitespace THEN lstrip(Tail(t)) ELSE t

RECURSIVE rstrip(_)
rstrip(t) ==
    IF t # <<>> /\ t[Len(t)] \in Whitespace THEN rstrip(SubSeq(t, 1, Len(t) - 1))
    ELSE t

strip_text(t) == rstrip(lstrip(t))

\* str.split("\n"): the pieces between newlines, empty pieces kept
RECURSIVE split(_)
split(t) ==
    IF \A i \in 1..Len(t) : t[i] # Newline THEN <<t>>
    ELSE LET k == CHOOSE i \in 1..Len(t) :
                      t[i] = Newline /\ \A j \in 1..(i - 1) : t[j] # Newline
         IN  <<SubSeq(t, 1, k - 1)>> \o split(SubSeq(t, k + 1, Len(t)))

\* the number a string of digits denotes
RECURSIVE decimal(_)
decimal(t) ==
    IF t = <<>> THEN 0
    ELSE 10 * decimal(SubSeq(t, 1, Len(t) - 1)) + (t[Len(t)] - 48)

\* json.loads(line): surrounding whitespace is skipped; what is left must be
\* one JSON value, which over these bytes is a number
json_loads_ok(line) ==
    LET core == strip_text(line)
    IN  core # <<>> /\ \A i \in 1..Len(core) : core[i] \in Digits

json_loads(line) == decimal(strip_text(line))

\* the lines without the strip()
ndjson_lines_unstripped_mut(text) == SelectSeq(split(text), LAMBDA l : l # <<>>)

\* the lines of [... for line in ndjson_content.strip().split("\n") if line]
ndjson_lines(text) == SelectSeq(split(strip_text(text)), LAMBDA l : l # <<>>)

(***************************************************************************)
(* handle_ndjson: only json.JSONDecodeError is caught                      *)
(***************************************************************************)
ndjson_response(req) ==
    IF ~utf8_decodable(req.body) THEN Fault("UnicodeDecodeError")
    ELSE LET lines == ndjson_lines(req.body)
         IN  IF \E i \in 1..Len(lines) : ~json_loads_ok(lines[i])
             THEN Response(400, {"error"}, "", "", "Invalid NDJSON", NoErrors,
                           NoPayload)
             ELSE Response(200, {"status", "lines_count", "data", "content_type"},
                           "success", req.content_type, "", NoErrors,
                           [lines_count |-> Len(lines),
                            data |-> [i \in 1..Len(lines) |-> json_loads(lines[i])]])

(***************************************************************************)
(* handle_text_plain, handle_html, handle_svg: nothing is caught           *)
(***************************************************************************)
text_plain_response(req) ==
    IF ~utf8_decodable(req.body) THEN Fault("UnicodeDecodeError")
    ELSE Response(200, {"status", "received", "length", "content_type"},
                  "success", req.content_type, "", NoErrors,
                  [received |-> req.body, length |-> Len(req.body)])

html_response(req) ==
    IF ~utf8_decodable(req.body) THEN Fault("UnicodeDecodeError")
    ELSE Response(200, {"status", "received", "length", "content_type"},
                  "success", req.content_type, "", NoErrors,
                  [received |-> req.body, length |-> Len(req.body)])

svg_response(req) ==
    IF ~utf8_decodable(req.body) THEN Fault("UnicodeDecodeError")
    ELSE Response(200, {"status", "received", "length", "content_type"},
                  "success", req.content_type, "", NoErrors,
                  [received |-> req.body, length |-> Len(req.body)])

(***************************************************************************)
(* handle_xml.  The body is [utf8, wellformed, root, children]: whether    *)
(* its bytes decode, whether ET.fromstring parses it, and the tree it      *)
(* parses to (the root's tag, the direct children as [tag, text]).         *)
(***************************************************************************)
\* a mapping that keeps the first child of each tag
child_dict_first_wins_mut(children) ==
    [t \in {children[i].tag : i \in 1..Len(children)} |->
        children[CHOOSE i \in 1..Len(children) :
                    children[i].tag = t
                    /\ \A j \in 1..(i - 1) : children[j].tag # t].text]

\* {child.tag: child.text for child in root}: a later child replaces an
\* earlier one of the same tag
child_dict(children) ==
    [t \in {children[i].tag : i \in 1..Len(children)} |->
        children[CHOOSE i \in 1..Len(children) :
                    children[i].tag = t
                    /\ \A j \in (i + 1)..Len(children) : children[j].tag # t].text]

\* only ET.ParseError is caught
xml_response(req) ==
    IF ~req.body.utf8 THEN Fault("UnicodeDecodeError")
    ELSE IF ~req.body.wellformed
    THEN Response(400, {"error"}, "", "", "Invalid XML", NoErrors, NoPayload)
    ELSE Response(200, {"status", "root_tag", "data", "content_type"}, "success",
                  req.content_type, "", NoErrors,
                  [root_tag |-> req.body.root, data |-> child_dict(req.body.children)])

(***************************************************************************)
(* handle_binary                                                           *)
(***************************************************************************)
\* a slice one byte short
first_bytes_off_by_one_mut(binary_data) ==
    SubSeq(binary_data, 1,
           IF Len(binary_data) < FirstBytesCount - 1 THEN Len(binary_data)
           ELSE FirstBytesCount - 1)

\* binary_data[:10]
first_bytes(binary_data) ==
    SubSeq(binary_data, 1,
           IF Len(binary_data) < FirstBytesCount THEN Len(binary_data)
           ELSE FirstBytesCount)

binary_response(req) ==
    Response(200, {"status", "size", "content_type", "first_bytes"}, "success",
             req.content_type, "", NoErrors,
             [size |-> Len(req.body), first_bytes |-> first_bytes(req.body)])

(***************************************************************************)
(* The requests of the model.                                              *)
(***************************************************************************)
ContentTypes == {"application/json", "text/plain"}

Request(handler, content_type, body) ==
    [handler |-> handler, content_type |-> content_type, body |-> body]

\* usernames: "", "ab", "abc", "a_1", "___", "_12", "a-b", " abc", "__",
\* 150 letters, 151 letters, 151 characters with a "-"
UsernameInputs ==
    {EmptyStr, Str(0, 2, 0, 0, 0, 0), Str(0, 3, 0, 0, 0, 0), Str(0, 1, 1, 1, 0, 0),
     Str(0, 0, 0, 3, 0, 0), Str(0, 0, 2, 1, 0, 0), Str(0, 2, 0, 0, 1, 0),
     Str(0, 3, 0, 0, 0, 1), Str(0, 0, 0, 2, 0, 0),
     Str(0, UsernameMaxLength, 0, 0, 0, 0), Str(0, UsernameMaxLength + 1, 0, 0, 0, 0),
     Str(0, UsernameMaxLength, 0, 0, 1, 0)}

\* passwords: "", "1234", "12345678", "password", "PASSWORD", "Abcdefgh",
\* "Abcdefg", "Abcdefg ", "pass_word!"
PasswordInputs ==
    {EmptyStr, Str(0, 0, 4, 0, 0, 0), Str(0, 0, 8, 0, 0, 0), Str(0, 8, 0, 0, 0, 0),
     Str(8, 0, 0, 0, 0, 0), Str(1, 7, 0, 0, 0, 0), Str(1, 6, 0, 0, 0, 0),
     Str(1, 6, 0, 0, 0, 1), Str(0, 8, 0, 1, 1, 0)}

\* bios: "", 500 characters, 501 characters
BioInputs ==
    {EmptyStr, Str(0, BioMaxLength, 0, 0, 0, 0), Str(0, BioMaxLength + 1, 0, 0, 0, 0)}

\* avatars: none, or a file of 1 byte, of exactly 5 MiB or of one byte more
AvatarInputs ==
    {NoFile} \cup {File("a.bin", size, ct) :
                     size \in {1, AvatarMaxSize, AvatarMaxSize + 1},
                     ct \in {"image/png", "text/plain"}}

UrlencodedRequests ==
    {Request("urlencoded", ct, [username |-> u, email |-> e, password |-> p, bio |-> b]) :
        ct \in ContentTypes, u \in UsernameInputs, e \in EmailInputs,
        p \in PasswordInputs, b \in BioInputs}

MultipartRequests ==
    {Request("multipart", ct, [username |-> u, email |-> e, avatar |-> a]) :
        ct \in ContentTypes, u \in UsernameInputs, e \in EmailInputs,
        a \in AvatarInputs}

\* JSON bodies: undecodable bytes, a syntax error, a value that is no object,
\* or an object with any combination of the members below
NameInputs ==
    {JMissing, JInt(7), JStr("n", NameMinLength - 1), JStr("n", NameMinLength),
     JStr("n", NameMaxLength), JStr("n", NameMaxLength + 1)}
EmailMemberInputs ==
    {JMissing, JInt(7), JStr(ValidEmail, 16), JStr(InvalidEmail, 12)}
AgeInputs ==
    {JMissing, JNull, JInt(AgeMin - 1), JInt(AgeMin), JInt(AgeMax), JInt(AgeMax + 1),
     JStr("30", 2), JStr("151", 3), JStr("abc", 3)}

NoMembers == [name |-> JMissing, email |-> JMissing, age |-> JMissing]

JsonBody(utf8, syntax_ok, type, fields) ==
    [utf8 |-> utf8, syntax_ok |-> syntax_ok, type |-> type, fields |-> fields]

JsonBodies ==
    {JsonBody(FALSE, FALSE, "none", NoMembers), JsonBody(TRUE, FALSE, "none", NoMembers)}
    \cup {JsonBody(TRUE, TRUE, t, NoMembers) : t \in {"array", "string", "number", "null"}}
    \cup {JsonBody(TRUE, TRUE, "object", [name |-> n, email |-> e, age |-> a]) :
            n \in NameInputs, e \in EmailMemberInputs, a \in AgeInputs}

JsonRequests == {Request("json", ct, b) : ct \in ContentTypes, b \in JsonBodies}

NdjsonRequests ==
    {Request("ndjson", ct, b) : ct \in ContentTypes, b \in BytesUpTo(TextBytes, MaxBodyLen)}

TextRequests(handler) ==
    {Request(handler, ct, b) : ct \in ContentTypes, b \in BytesUpTo(TextBytes, MaxTextLen)}

\* XML bodies: undecodable bytes, malformed text, or a document
Child(tag, text) == [tag |-> tag, text |-> text]
Children == {Child(t, x) : t \in {"a", "b"}, x \in {"1", "2"}}

RECURSIVE ChildLists(_)
ChildLists(n) ==
    IF n = 0 THEN {<<>>}
    ELSE LET shorter == ChildLists(n - 1)
         IN  shorter \cup {Append(l, c) : l \in {x \in shorter : Len(x) = n - 1},
                                          c \in Children}

XmlBody(utf8, wellformed, root, children) ==
    [utf8 |-> utf8, wellformed |-> wellformed, root |-> root, children |-> children]

XmlBodies ==
    {XmlBody(FALSE, FALSE, "", <<>>), XmlBody(TRUE, FALSE, "", <<>>)}
    \cup {XmlBody(TRUE, TRUE, r, c) : r \in {"root", "doc"}, c \in ChildLists(MaxChildren)}

XmlRequests == {Request("xml", ct, b) : ct \in ContentTypes, b \in XmlBodies}

BinaryRequests ==
    {Request("binary", ct, b) : ct \in ContentTypes, b \in BytesUpTo(BinaryBytes, MaxBinaryLen)}

(***************************************************************************)
(* The state machine: the router has dispatched one request to its         *)
(* handler (urls.py); the handler answers it.                              *)
(***************************************************************************)
Init ==
    /\ pc = "dispatched"
    /\ response = NoResponse
    /\ \/ request \in UrlencodedRequests
       \/ request \in MultipartRequests
       \/ request \in JsonRequests
       \/ request \in NdjsonRequests
       \/ request \in TextRequests("text_plain")
       \/ request \in TextRequests("html")
       \/ request \in TextRequests("svg")
       \/ request \in XmlRequests
       \/ request \in BinaryRequests

handle_urlencoded ==
    /\ pc = "dispatched"
    /\ request.handler = "urlencoded"
    /\ response' = urlencoded_response(request)
    /\ pc' = "responded"
    /\ UNCHANGED request

handle_multipart ==
    /\ pc = "dispatched"
    /\ request.handler = "multipart"
    /\ response' = multipart_response(request)
    /\ pc' = "responded"
    /\ UNCHANGED request

handle_json ==
    /\ pc = "dispatched"
    /\ request.handler = "json"
    /\ response' = json_response(request)
    /\ pc' = "responded"
    /\ UNCHANGED request

handle_ndjson ==
    /\ pc = "dispatched"
    /\ request.handler = "ndjson"
    /\ response' = ndjson_response(request)
    /\ pc' = "responded"
    /\ UNCHANGED request

handle_text_plain ==
    /\ pc = "dispatched"
    /\ request.handler = "text_plain"
    /\ response' = text_plain_response(request)
    /\ pc' = "responded"
    /\ UNCHANGED request

handle_html ==
    /\ pc = "dispatched"
    /\ request.handler = "html"
    /\ response' = html_response(request)
    /\ pc' = "responded"
    /\ UNCHANGED request

handle_xml ==
    /\ pc = "dispatched"
    /\ request.handler = "xml"
    /\ response' = xml_response(request)
    /\ pc' = "responded"
    /\ UNCHANGED request

handle_svg ==
    /\ pc = "dispatched"
    /\ request.handler = "svg"
    /\ response' = svg_response(request)
    /\ pc' = "responded"
    /\ UNCHANGED request

handle_binary ==
    /\ pc = "dispatched"
    /\ request.handler = "binary"
    /\ response' = binary_response(request)
    /\ pc' = "responded"
    /\ UNCHANGED request

Next ==
    \/ handle_urlencoded
    \/ handle_multipart
    \/ handle_json
    \/ handle_ndjson
    \/ handle_text_plain
    \/ handle_html
    \/ handle_xml
    \/ handle_svg
    \/ handle_binary

Spec == Init /\ [][Next]_vars

(***************************************************************************)
(* URL-encoded submissions whose other fields are valid, over every        *)
(* password census within the bounds.                                      *)
(***************************************************************************)
PasswordCensus ==
    {Str(u, l, d, s, o, p) : u \in 0..MaxCount, l \in 0..MaxCount, d \in 0..MaxCount,
                             s \in 0..MaxExtra, o \in 0..MaxExtra, p \in 0..MaxExtra}

InitPassword ==
    /\ pc = "dispatched"
    /\ response = NoResponse
    /\ request \in {Request("urlencoded", "application/x-www-form-urlencoded",
                            [username |-> Str(0, 3, 0, 0, 0, 0), email |-> ValidEmail,
                             password |-> p, bio |-> EmptyStr]) : p \in PasswordCensus}

SpecPassword == InitPassword /\ [][handle_urlencoded]_vars

(***************************************************************************)
(* Reference predicates of the claims.                                     *)
(***************************************************************************)
Range(seq) == {seq[i] : i \in 1..Len(seq)}

Responded(handler) == pc = "responded" /\ request.handler = handler

IsSuccessShape ==
    /\ response.http = 200
    /\ response.status = "success" /\ "status" \in response.keys
    /\ "errors" \notin response.keys /\ "error" \notin response.keys
    /\ "content_type" \in response.keys
    /\ response.content_type = request.content_type

IsErrorShape ==
    /\ response.http = 400
    /\ response.status = "error" /\ "status" \in response.keys
    /\ ("errors" \in response.keys \/ "error" \in response.keys)
    /\ "content_type" \in response.keys
    /\ response.content_type = request.content_type

\* every constraint of the rule sets that a submitted value violates, by field
ViolatedUsername(raw) ==
    LET v == strip(raw)
    IN  IF StrLen(v) = 0 THEN {MsgUsernameRequired}
        ELSE {m \in {MsgUsernameMin} : StrLen(v) < UsernameMinLength}
             \cup {m \in {MsgUsernameMax} : StrLen(v) > UsernameMaxLength}
             \cup {m \in {MsgUsernameChars} : v.other > 0}

ViolatedEmail(raw) ==
    IF raw = "" THEN {MsgEmailRequired}
    ELSE {m \in {MsgEmailInvalid} : raw # ValidEmail}

ViolatedPassword(raw) ==
    LET v == strip(raw)
    IN  IF StrLen(v) = 0 THEN {MsgPasswordRequired}
        ELSE {m \in {MsgPasswordMin} : StrLen(v) < PasswordMinLength}
             \cup {m \in {MsgPasswordNumeric} : v.digit = StrLen(v)}
             \cup {m \in {MsgPasswordCase} : v.upper = 0 \/ v.lower = 0}

ViolatedBio(raw) == {m \in {MsgBioMax} : StrLen(strip(raw)) > BioMaxLength}

ViolatedAvatar(file) ==
    IF ~file.present THEN {}
    ELSE {m \in {MsgAvatarSize} : file.size > AvatarMaxSize}
         \cup {m \in {MsgAvatarType} : file.content_type \notin allowed_types}

ViolatedName(v) ==
    IF v.type = "missing" THEN {"missing"}
    ELSE IF v.type # "str" THEN {"string_type"}
    ELSE {m \in {"string_too_short"} : v.len < NameMinLength}
         \cup {m \in {"string_too_long"} : v.len > NameMaxLength}

ViolatedEmailMember(v) ==
    IF v.type = "missing" THEN {"missing"}
    ELSE IF v.type # "str" THEN {"string_type"}
    ELSE {m \in {"value_error"} : v.text # ValidEmail}

ViolatedAge(v) ==
    IF v.type = "missing" THEN {"missing"}
    ELSE IF v.type = "null" THEN {"int_type"}
    ELSE IF v.type = "str" /\ v.text \notin {"30", "151"} THEN {"int_parsing"}
    ELSE LET n == IF v.type = "int" THEN v.num ELSE IF v.text = "30" THEN 30 ELSE 151
         IN  {m \in {"greater_than_equal"} : n < AgeMin}
             \cup {m \in {"less_than_equal"} : n > AgeMax}

\* the request carries an input mapping that a rule set validates
IsValidated ==
    \/ request.handler \in {"urlencoded", "multipart"}
    \/ /\ request.handler = "json"
       /\ request.body.utf8 /\ request.body.syntax_ok /\ request.body.type = "object"

Violated(f) ==
    IF request.handler = "urlencoded"
    THEN CASE f = "username" -> ViolatedUsername(request.body.username)
           [] f = "email" -> ViolatedEmail(request.body.email)
           [] f = "password" -> ViolatedPassword(request.body.password)
           [] f = "bio" -> ViolatedBio(request.body.bio)
           [] OTHER -> {}
    ELSE IF request.handler = "multipart"
    THEN CASE f = "username" -> ViolatedUsername(request.body.username)
           [] f = "email" -> ViolatedEmail(request.body.email)
           [] f = "avatar" -> ViolatedAvatar(request.body.avatar)
           [] OTHER -> {}
    ELSE CASE f = "name" -> ViolatedName(request.body.fields.name)
           [] f = "email" -> ViolatedEmailMember(request.body.fields.email)
           [] f = "age" -> ViolatedAge(request.body.fields.age)
           [] OTHER -> {}

(***************************************************************************)
(* C1                                                                      *)
(***************************************************************************)
\* C1: every response of every handler is a success (200, status "success",
\* no errors/error member) or an error (400, status "error", an errors or an
\* error member), and carries the request's content type.
C1_TwoShapes == pc = "responded" => (IsSuccessShape \/ IsErrorShape)

(***************************************************************************)
(* C2                                                                      *)
(***************************************************************************)
MeetsSchema(body) ==
    /\ body.utf8 /\ body.syntax_ok /\ body.type = "object"
    /\ \A f \in {"name", "email", "age"} : Violated(f) = {}

\* C2: the JSON handler always answers with a structured response: 200 and the
\* validated object for a body meeting the schema, 400 "Invalid JSON" for a
\* body that is not JSON, 400 with per-field errors for every other body.
C2_JsonAlwaysStructured ==
    Responded("json") =>
        /\ response.fault = ""
        /\ IF MeetsSchema(request.body)
           THEN response.http = 200 /\ "received" \in response.keys
           ELSE IF ~(request.body.utf8 /\ request.body.syntax_ok)
           THEN response.http = 400 /\ response.error = "Invalid JSON"
           ELSE response.http = 400 /\ "errors" \in response.keys

BodyLines == SelectSeq(split(request.body), LAMBDA l : l # <<>>)

LineParses(l) == utf8_decodable(l) /\ json_loads_ok(l)

\* C4 as stated: if every non-empty line of the body parses, the response is a success
\* with lines_count the number of non-empty lines and data the parsed values
\* in order; otherwise it is one 400 "Invalid NDJSON" error without any data.
C4_AllOrNothing ==
    Responded("ndjson") =>
        IF \A i \in 1..Len(BodyLines) : LineParses(BodyLines[i])
        THEN /\ response.http = 200 /\ response.status = "success"
             /\ response.payload.lines_count = Len(BodyLines)
             /\ response.payload.data =
                   [i \in 1..Len(BodyLines) |-> json_loads(BodyLines[i])]
        ELSE /\ response.http = 400 /\ response.error = "Invalid NDJSON"
             /\ "data" \notin response.keys

\* the non-empty lines of the body once the whitespace before its first and
\* after its last other character is removed
StrippedLines == SelectSeq(split(strip_text(request.body)), LAMBDA l : l # <<>>)

\* C4 amended: the lines judged are those of the body with its leading and
\* trailing whitespace removed (a whitespace-only line at either end is
\* dropped, not reported): if each non-empty one parses, the response is a
\* success with lines_count their number and data their values in order;
\* otherwise it is one 400 "Invalid NDJSON" error without any data.  A body
\* that is not UTF-8 text gets neither: the decoding error leaves the handler.
C4_AllOrNothingAfterStrip ==
    Responded("ndjson") =>
        IF ~utf8_decodable(request.body)
        THEN response.fault = "UnicodeDecodeError" /\ response.keys = {}
        ELSE IF \A i \in 1..Len(StrippedLines) : json_loads_ok(StrippedLines[i])
        THEN /\ response.http = 200 /\ response.status = "success"
             /\ response.payload.lines_count = Len(StrippedLines)
             /\ response.payload.data =
                   [i \in 1..Len(StrippedLines) |-> json_loads(StrippedLines[i])]
        ELSE /\ response.http = 400 /\ response.error = "Invalid NDJSON"
             /\ "data" \notin response.keys

\* "1\n2\n " is answered with the two values in order, its last line dropped
C4_Witness ==
    /\ Responded("ndjson")
    /\ request.body = <<49, 10, 50, 10, 32>>
    /\ response.http = 200
    /\ response.payload.data = <<1, 2>>

(***************************************************************************)
(* C5                                                                      *)
(***************************************************************************)
\* C5: a body that is not UTF-8 text gets a structured error response from
\* each handler that decodes it.
C5_DecodeFailureCaught ==
    (/\ pc = "responded"
     /\ \/ /\ request.handler \in {"text_plain", "html", "svg", "ndjson"}
           /\ ~utf8_decodable(request.body)
        \/ request.handler = "xml" /\ ~request.body.utf8) =>
        (response.fault = "" /\ response.http = 400 /\ "error" \in response.keys)

(***************************************************************************)
(* C6                                                                      *)
(***************************************************************************)
Acceptable(password) ==
    /\ StrLen(password) >= PasswordMinLength
    /\ password.digit # StrLen(password)
    /\ password.upper >= 1
    /\ password.lower >= 1

\* C6 as stated: the password as submitted is accepted exactly when it has at
\* least 8 characters, is not all digits and holds an uppercase and a
\* lowercase letter.
C6_AcceptedAsSubmitted ==
    Responded("urlencoded") =>
        (response.http = 200 <=> Acceptable(request.body.password))

\* C6 amended: the password with its leading and trailing whitespace removed
\* is what is judged: it is accepted exactly when that has at least 8
\* characters, is not all digits and holds an uppercase and a lowercase
\* letter; one of 8 or more characters that is not all digits and lacks an
\* uppercase or a lowercase letter fails with the mixed-case error.
C6_AcceptedAfterStrip ==
    Responded("urlencoded") =>
        LET password == strip(request.body.password)
        IN  /\ response.http = 200 <=> Acceptable(password)
            /\ (/\ StrLen(password) >= PasswordMinLength
                /\ password.digit # StrLen(password)
                /\ (password.upper = 0 \/ password.lower = 0)) =>
                  response.errors["password"] = <<MsgPasswordCase>>

\* "Abcdefgh" is accepted
C6_Witness ==
    /\ Responded("urlencoded")
    /\ request.body.password = Str(1, 7, 0, 0, 0, 0)
    /\ response.http = 200

(***************************************************************************)
(* C7                                                                      *)
(***************************************************************************)
\* C7: in both forms a username of 3 to 150 characters passes the username
\* check exactly when each character is a letter, a digit or an underscore.
C7_UsernameCharset ==
    (/\ pc = "responded"
     /\ request.handler \in {"urlencoded", "multipart"}
     /\ StrLen(request.body.username) >= UsernameMinLength
     /\ StrLen(request.body.username) <= UsernameMaxLength) =>
        (response.errors["username"] = <<>>
            <=> (request.body.username.other = 0 /\ request.body.username.pad = 0))

(***************************************************************************)
(* C8                                                                      *)
(***************************************************************************)
BadTypeAvatar ==
    /\ Responded("multipart")
    /\ request.body.avatar.present
    /\ request.body.avatar.content_type \notin allowed_types

C9_XmlChildren ==
    Responded("xml") =>
        IF request.body.utf8 /\ request.body.wellformed
        THEN /\ response.http = 200 /\ response.status = "success"
             /\ response.payload.root_tag = request.body.root
             /\ \A i \in 1..Len(request.body.children) :
                   LET child == request.body.children[i]
                   IN  /\ child.tag \in DOMAIN response.payload.data
                       /\ response.payload.data[child.tag] = child.text
        ELSE response.http = 400 /\ response.error = "Invalid XML"

\* C9 amended: a well-formed body gets a success with the root's tag and a
\* data mapping whose keys are the tags of the direct children and whose
\* value for a tag is the text of the last direct child with that tag (a
\* child followed by a sibling of the same tag is not represented); a
\* malformed text body gets 400 "Invalid XML".  A body that is not UTF-8 text
\* gets neither: the decoding error leaves the handler.
C9_XmlLastChildPerTag ==
    Responded("xml") =>
        IF ~request.body.utf8
        THEN response.fault = "UnicodeDecodeError" /\ response.keys = {}
        ELSE IF ~request.body.wellformed
        THEN response.http = 400 /\ response.error = "Invalid XML"
        ELSE LET children == request.body.children
             IN  /\ response.http = 200 /\ response.status = "success"
                 /\ response.payload.root_tag = request.body.root
                 /\ DOMAIN response.payload.data =
                       {children[i].tag : i \in 1..Len(children)}
                 /\ \A i \in 1..Len(children) :
                       (\A j \in (i + 1)..Len(children) :
                            children[j].tag # children[i].tag) =>
                          response.payload.data[children[i].tag] = children[i].text

\* <root><a>1</a><a>2</a></root> is answered with data {"a": "2"}
C9_Witness ==
    /\ Responded("xml")
    /\ request.body.children = <<Child("a", "1"), Child("a", "2")>>
    /\ response.http = 200
    /\ response.payload.data["a"] = "2"

(***************************************************************************)
(* C10                                                                     *)
(***************************************************************************)
\* C10: the binary handler always succeeds; size is the byte length of the
\* body and first_bytes the values of its first min(10, size) bytes in order.
C10_BinarySummary ==
    Responded("binary") =>
        /\ IsSuccessShape
        /\ response.payload.size = Len(request.body)
        /\ Len(response.payload.first_bytes) =
              (IF Len(request.body) < 10 THEN Len(request.body) ELSE 10)
        /\ \A i \in 1..Len(response.payload.first_bytes) :
              response.payload.first_bytes[i] = request.body[i]

\* a body longer than ten bytes has been answered with its first ten
C10_Witness ==
    /\ Responded("binary")
    /\ Len(request.body) > FirstBytesCount
    /\ Len(response.payload.first_bytes) = FirstBytesCount

====
